---- MODULE Spec2Model ----
(***************************************************************************)
(* Claims risk-decision pipeline of the Lemonade insurance platform:       *)
(*   services/claims-service/src/app.py          submit_claim and helpers  *)
(*   services/fraud-detection/src/models/ensemble.py  FraudDetectionEnsemble*)
(*                                                                         *)
(* Scores, confidences and similarities are probabilities in the code;     *)
(* here they are integers in hundredths (0.15 is 15, 0.85 is 85).          *)
(* Money amounts are in units of 100 (3500 is 35, 5000 is 50).             *)
(***************************************************************************)
EXTENDS Integers, FiniteSets, Sequences, TLC

(***************************************************************************)
(* Bounds of the model                                                     *)
(***************************************************************************)
\* number of HTTP submissions (requests) that may be in flight or completed
MaxReq == 2
\* how long the clock runs, in units of ten days
MaxTime == 4

Req == 1..MaxReq

(***************************************************************************)
(* Program constants                                                       *)
(***************************************************************************)
\* ensemble.py make_decision
ApproveRiskBelow == 15
BiometricsBelow == 20
DeviceBelow == 30
RejectRiskAbove == 85
IdentityGraphAbove == 90
NetworkAnalysisAbove == 95
\* model_scores.get(name, 1) / model_scores.get(name, 0)
AbsentApproveDefault == 100
AbsentRejectDefault == 0
\* ensemble.py evaluate: score of a provider that raised
NeutralScore == 50
\* app.py submit_claim
InstantAmountBelow == 50
InstantConfidenceAbove == 85
\* app.py check_duplicate_claim
SimilarityAbove == 85
\* redis_client.expire(recent_claims_key, 2592000): 30 days, in units of ten days
RetentionPeriod == 3

Min(a, b) == IF a < b THEN a ELSE b
Max(a, b) == IF a > b THEN a ELSE b
Abs(a) == IF a < 0 THEN 0 - a ELSE a

(***************************************************************************)
(* ensemble.py: the registered providers (self.models)                     *)
(***************************************************************************)
ModelNames ==
    {"behavioral_biometrics", "device_fingerprint", "velocity_checks",
     "identity_graph", "claim_pattern", "network_analysis",
     "video_analysis", "text_sentiment"}

\* dict.get(key, default)
Get(d, key, default) == IF key \in DOMAIN d THEN d[key] ELSE default

(***************************************************************************)
(* ensemble.py make_decision                                               *)
(***************************************************************************)
\* variant: an absent biometrics or device score does not block approval
make_decision_absent_passes(risk_score, is_anomaly, model_scores) ==
    IF /\ risk_score < ApproveRiskBelow
       /\ ~is_anomaly
       /\ Get(model_scores, "behavioral_biometrics", 0) < BiometricsBelow
       /\ Get(model_scores, "device_fingerprint", 0) < DeviceBelow
    THEN "instant_approve"
    ELSE IF \/ risk_score > RejectRiskAbove
            \/ Get(model_scores, "identity_graph", AbsentRejectDefault) > IdentityGraphAbove
            \/ Get(model_scores, "network_analysis", AbsentRejectDefault) > NetworkAnalysisAbove
         THEN "reject"
         ELSE "review"

\* variant: an absent hard signal counts as the worst score
make_decision_absent_rejects(risk_score, is_anomaly, model_scores) ==
    IF /\ risk_score < ApproveRiskBelow
       /\ ~is_anomaly
       /\ Get(model_scores, "behavioral_biometrics", AbsentApproveDefault) < BiometricsBelow
       /\ Get(model_scores, "device_fingerprint", AbsentApproveDefault) < DeviceBelow
    THEN "instant_approve"
    ELSE IF \/ risk_score > RejectRiskAbove
            \/ Get(model_scores, "identity_graph", AbsentApproveDefault) > IdentityGraphAbove
            \/ Get(model_scores, "network_analysis", AbsentApproveDefault) > NetworkAnalysisAbove
         THEN "reject"
         ELSE "review"

\* variant: the approve threshold on the risk score is not strict
make_decision_not_strict(risk_score, is_anomaly, model_scores) ==
    IF /\ risk_score <= ApproveRiskBelow
       /\ ~is_anomaly
       /\ Get(model_scores, "behavioral_biometrics", AbsentApproveDefault) < BiometricsBelow
       /\ Get(model_scores, "device_fingerprint", AbsentApproveDefault) < DeviceBelow
    THEN "instant_approve"
    ELSE IF \/ risk_score > RejectRiskAbove
            \/ Get(model_scores, "identity_graph", AbsentRejectDefault) > IdentityGraphAbove
            \/ Get(model_scores, "network_analysis", AbsentRejectDefault) > NetworkAnalysisAbove
         THEN "reject"
         ELSE "review"

make_decision(risk_score, is_anomaly, model_scores) ==
    IF /\ risk_score < ApproveRiskBelow
       /\ ~is_anomaly
       /\ Get(model_scores, "behavioral_biometrics", AbsentApproveDefault) < BiometricsBelow
       /\ Get(model_scores, "device_fingerprint", AbsentApproveDefault) < DeviceBelow
    THEN "instant_approve"
    ELSE IF \/ risk_score > RejectRiskAbove
            \/ Get(model_scores, "identity_graph", AbsentRejectDefault) > IdentityGraphAbove
            \/ Get(model_scores, "network_analysis", AbsentRejectDefault) > NetworkAnalysisAbove
         THEN "reject"
         ELSE "review"

(***************************************************************************)
(* ensemble.py evaluate                                                    *)
(***************************************************************************)
\* outcome of model.predict_proba: a score, or an exception
Returned(score) == [ok |-> TRUE, score |-> score]
Raised == [ok |-> FALSE, score |-> 0]

\* score_to_level is called by evaluate but not part of the sources; the
\* data model derives low/medium/high from the score by fixed thresholds.
LowRiskBelow == 30
HighRiskFrom == 70

score_to_level(score) ==
    IF score < LowRiskBelow THEN "low"
    ELSE IF score < HighRiskFrom THEN "medium" ELSE "high"

\* calculate_confidence is called by evaluate but not part of the sources;
\* it sees the score vector only: the share of entries that are not neutral.
calculate_confidence(model_scores) ==
    (100 * Cardinality({n \in DOMAIN model_scores : model_scores[n] # NeutralScore}))
        \div Cardinality(DOMAIN model_scores)

\* the loop over self.models: a provider that raises contributes 0.5
collect_scores(outcomes) ==
    [n \in DOMAIN outcomes |->
        IF outcomes[n].ok THEN outcomes[n].score ELSE NeutralScore]

\* outcomes: what each provider's predict_proba does; final_risk_score and
\* is_anomaly: the outputs of the meta classifier and the anomaly detector
evaluate(outcomes, final_risk_score, is_anomaly) ==
    LET scores == collect_scores(outcomes) IN
    [risk_score      |-> final_risk_score,
     risk_level      |-> score_to_level(final_risk_score),
     confidence      |-> calculate_confidence(scores),
     is_anomaly      |-> is_anomaly,
     model_breakdown |-> scores,
     decision        |-> make_decision(final_risk_score, is_anomaly, scores)]

\* self.models in insertion order, the order of the loop
ModelOrder ==
    <<"behavioral_biometrics", "device_fingerprint", "velocity_checks",
      "identity_graph", "claim_pattern", "network_analysis",
      "video_analysis", "text_sentiment">>

\* variant: a provider that raises leaves no entry
record_score_drops_failed(scores, name, outcome) ==
    IF outcome.ok
    THEN [n \in DOMAIN scores \cup {name} |->
             IF n = name THEN outcome.score ELSE scores[n]]
    ELSE scores

\* one iteration of the loop: model_scores[name] = score, or 0.5 in the
\* except branch
record_score(scores, name, outcome) ==
    [n \in DOMAIN scores \cup {name} |->
        IF n = name
        THEN IF outcome.ok THEN outcome.score ELSE NeutralScore
        ELSE scores[n]]

(***************************************************************************)
(* app.py: policies, claims                                                *)
(***************************************************************************)
ClaimTypes == {"theft", "water_damage", "fire", "liability", "medical"}
InstantTypes == {"theft", "water_damage"}

NoPolicy == [status |-> "none"]

\* the policy service (fetch_policy_from_service): pol_1 is active, pol_2 is
\* inactive, pol_3 does not exist
PolicyService ==
    [pol_1 |-> [status |-> "active",
                coverage_limits |-> [theft |-> 50, water_damage |-> 50, medical |-> 20],
                deductible |-> 5],
     pol_2 |-> [status |-> "inactive",
                coverage_limits |-> [theft |-> 50, water_damage |-> 50],
                deductible |-> 5],
     pol_3 |-> NoPolicy]

PolicyIds == DOMAIN PolicyService

\* ClaimRequest values the clients submit
ClaimPool ==
    {[claim_id |-> "c1", user_id |-> "u1", policy_id |-> "pol_1",
      claim_type |-> "water_damage", description |-> "pipe burst", estimated_amount |-> 35],
     [claim_id |-> "c2", user_id |-> "u1", policy_id |-> "pol_1",
      claim_type |-> "water_damage", description |-> "pipe burst", estimated_amount |-> 35],
     [claim_id |-> "c1", user_id |-> "u1", policy_id |-> "pol_1",
      claim_type |-> "fire", description |-> "kitchen fire", estimated_amount |-> 60],
     [claim_id |-> "c3", user_id |-> "u2", policy_id |-> "pol_2",
      claim_type |-> "theft", description |-> "bike stolen", estimated_amount |-> 1],
     [claim_id |-> "c4", user_id |-> "u2", policy_id |-> "pol_3",
      claim_type |-> "theft", description |-> "bike stolen", estimated_amount |-> 1]}

ClaimIds == {c.claim_id : c \in ClaimPool}
UserIds == {c.user_id : c \in ClaimPool}

\* ClaimRequest values for the instant-approval condition on its own: every
\* claim type, amounts on both sides of 5000
GateAmounts == {1, 49, 50, 60}
GateClaims ==
    {[claim_id |-> "c1", user_id |-> "u1", policy_id |-> "pol_1",
      claim_type |-> t, description |-> "pipe burst", estimated_amount |-> a] :
        t \in ClaimTypes, a \in GateAmounts}

Claims == ClaimPool \cup GateClaims

\* variant: the payout is not floored at zero
calculate_payout_no_floor(claim, policy) ==
    Min(claim.estimated_amount, Get(policy.coverage_limits, claim.claim_type, 0))
        - policy.deductible

\* calculate_payout
calculate_payout(claim, policy) ==
    LET coverage_limit == Get(policy.coverage_limits, claim.claim_type, 0)
        deductible == policy.deductible
        payout == Min(claim.estimated_amount, coverage_limit) - deductible
    IN Max(payout, 0)

\* calculate_similarity is called by check_duplicate_claim but not part of the
\* sources; section 4.1: a weighted combination of the textual similarity of
\* the descriptions and the relative proximity of the amounts (location and
\* incident date are equal for all claims of the pool).
TextWeight == 60
AmountWeight == 40

calculate_similarity(claim, recent_claim) ==
    LET text == IF claim.description = recent_claim.description THEN 100 ELSE 0
        hi == Max(claim.estimated_amount, recent_claim.estimated_amount)
        amount == 100 - (100 * Abs(claim.estimated_amount - recent_claim.estimated_amount)) \div hi
    IN (TextWeight * text + AmountWeight * amount) \div 100

(***************************************************************************)
(* State                                                                   *)
(***************************************************************************)
VARIABLES
    pc,               \* per request: position in submit_claim
    claim,            \* per request: the ClaimRequest
    policy,           \* per request: local variable policy
    recent,           \* per request: local variable recent (result of smembers)
    fraud_score,      \* per request: local variable fraud_score
    response,         \* per request: what the client receives
    prior,            \* per request: the requests already answered at start_time
    policy_cache,     \* redis: policy:{policy_id}
    user_claims,      \* redis: user_claims:{user_id}:30d
    background_tasks, \* tasks added with background_tasks.add_task
    kafka,            \* events sent with kafka_producer.send
    now,              \* the clock of the store, in units of ten days
    key_expiry,       \* redis: when the key user_claims:{user_id}:30d expires
    inserted_at,      \* per claim in the index: when sadd inserted it
    call,             \* argument of a function applied on its own
    ret,              \* its result
    model_scores,     \* evaluate: local variable model_scores
    next_model        \* evaluate: position of the loop in self.models

pipeline_vars == <<pc, claim, policy, recent, fraud_score, response, prior,
                   policy_cache, user_claims, background_tasks, kafka,
                   now, key_expiry, inserted_at>>
ttl_vars == <<now, key_expiry, inserted_at>>
vars == <<pc, claim, policy, recent, fraud_score, response, prior,
          policy_cache, user_claims, background_tasks, kafka,
          now, key_expiry, inserted_at, call, ret, model_scores, next_model>>
eval_vars == <<model_scores, next_model>>

NoClaim == [claim_id |-> "none"]
NoFraud == [decision |-> "none"]
NoResponse == [status |-> "none"]
NoCall == [fn |-> "none"]
NoRet == [done |-> FALSE, value |-> 0]
Returns(v) == [done |-> TRUE, value |-> v]
\* payout_amount: Optional[float] = None
None == -1
\* a key without a time to live, a claim that is not in the index
Never == 0 - 1

InitPipeline ==
    /\ pc = [r \in Req |-> "idle"]
    /\ claim = [r \in Req |-> NoClaim]
    /\ policy = [r \in Req |-> NoPolicy]
    /\ recent = [r \in Req |-> {}]
    /\ fraud_score = [r \in Req |-> NoFraud]
    /\ response = [r \in Req |-> NoResponse]
    /\ prior = [r \in Req |-> {}]
    /\ policy_cache = [p \in PolicyIds |-> NoPolicy]
    /\ user_claims = [u \in UserIds |-> {}]
    /\ background_tasks = {}
    /\ kafka = {}
    /\ now = 0
    /\ key_expiry = [u \in UserIds |-> Never]
    /\ inserted_at = [c \in Claims |-> Never]

\* model_scores = {} before the loop of evaluate
InitEnsemble ==
    /\ model_scores = [n \in {} |-> 0]
    /\ next_model = 1

Init ==
    /\ InitPipeline
    /\ InitEnsemble
    /\ call = NoCall
    /\ ret = NoRet

(***************************************************************************)
(* submit_claim, one action per stretch between two suspension points or   *)
(* two calls to the shared store                                           *)
(***************************************************************************)
\* POST /v1/claims arrives
Submit(r, c) ==
    /\ pc[r] = "idle"
    /\ claim' = [claim EXCEPT ![r] = c]
    /\ pc' = [pc EXCEPT ![r] = "validate_policy"]
    /\ prior' = [prior EXCEPT ![r] = {q \in Req : pc[q] = "done"}]
    /\ UNCHANGED <<policy, recent, fraud_score, response, policy_cache,
                   user_claims, background_tasks, kafka, call, ret, eval_vars, ttl_vars>>

\* validate_policy: cached policy, or the policy service's answer, which is
\* cached when there is one
validate_policy(policy_id, cache) ==
    IF cache[policy_id] # NoPolicy THEN cache[policy_id] ELSE PolicyService[policy_id]

validate_policy_cache(policy_id, cache) ==
    IF cache[policy_id] = NoPolicy /\ PolicyService[policy_id] # NoPolicy
    THEN [cache EXCEPT ![policy_id] = PolicyService[policy_id]]
    ELSE cache

\* variant: only a missing policy is refused
ValidatePolicy_ignores_status(r) ==
    /\ pc[r] = "validate_policy"
    /\ LET p == validate_policy(claim[r].policy_id, policy_cache) IN
        /\ policy' = [policy EXCEPT ![r] = p]
        /\ policy_cache' = validate_policy_cache(claim[r].policy_id, policy_cache)
        /\ IF p = NoPolicy
           THEN /\ response' = [response EXCEPT ![r] = [status |-> "http_400"]]
                /\ pc' = [pc EXCEPT ![r] = "done"]
           ELSE /\ response' = response
                /\ pc' = [pc EXCEPT ![r] = "check_duplicate"]
    /\ UNCHANGED <<claim, prior, recent, fraud_score, user_claims, background_tasks,
                   kafka, call, ret, eval_vars, ttl_vars>>

\* step 1: validate the policy, HTTP 400 when missing or not active
ValidatePolicy(r) ==
    /\ pc[r] = "validate_policy"
    /\ LET p == validate_policy(claim[r].policy_id, policy_cache) IN
        /\ policy' = [policy EXCEPT ![r] = p]
        /\ policy_cache' = validate_policy_cache(claim[r].policy_id, policy_cache)
        /\ IF p = NoPolicy \/ p.status # "active"
           THEN /\ response' = [response EXCEPT ![r] = [status |-> "http_400"]]
                /\ pc' = [pc EXCEPT ![r] = "done"]
           ELSE /\ response' = response
                /\ pc' = [pc EXCEPT ![r] = "check_duplicate"]
    /\ UNCHANGED <<claim, prior, recent, fraud_score, user_claims, background_tasks,
                   kafka, call, ret, eval_vars, ttl_vars>>

\* check_duplicate_claim, first call to the store: redis_client.smembers
SMembers(r) ==
    /\ pc[r] = "check_duplicate"
    /\ recent' = [recent EXCEPT ![r] = user_claims[claim[r].user_id]]
    /\ pc' = [pc EXCEPT ![r] = "scan_recent"]
    /\ UNCHANGED <<claim, prior, policy, fraud_score, response, policy_cache,
                   user_claims, background_tasks, kafka, call, ret, eval_vars, ttl_vars>>

\* the loop of check_duplicate_claim over the set it read
is_duplicate(c, recent_claims) ==
    \E rc \in recent_claims : calculate_similarity(c, rc) > SimilarityAbove

\* redis_client.sadd(recent_claims_key, claim.json())
sadd(index, c) == [index EXCEPT ![c.user_id] = @ \cup {c}]

\* a member that is in the set already is not inserted again
sadd_time(times, index, c, t) ==
    IF c \in index[c.user_id] THEN times ELSE [times EXCEPT ![c] = t]

\* redis_client.expire(recent_claims_key, 2592000): the time to live of the
\* whole key starts again
expire(expiry, user_id, t) == [expiry EXCEPT ![user_id] = t + RetentionPeriod]

\* variant: the claim is added to the set before the loop
CheckDuplicate_inserts_first(r) ==
    /\ pc[r] = "scan_recent"
    /\ user_claims' = sadd(user_claims, claim[r])
    /\ inserted_at' = sadd_time(inserted_at, user_claims, claim[r], now)
    /\ key_expiry' = expire(key_expiry, claim[r].user_id, now)
    /\ IF is_duplicate(claim[r], recent[r])
       THEN /\ response' = [response EXCEPT ![r] =
                   [status |-> "flagged", payout_amount |-> None,
                    confidence_score |-> 0]]
            /\ pc' = [pc EXCEPT ![r] = "done"]
       ELSE /\ pc' = [pc EXCEPT ![r] = "evaluate"]
            /\ response' = response
    /\ UNCHANGED <<claim, prior, policy, recent, fraud_score, policy_cache,
                   background_tasks, kafka, now, call, ret, eval_vars>>

\* check_duplicate_claim, the loop and the second call to the store
\* (redis_client.sadd, expire), then step 2 of submit_claim
CheckDuplicate(r) ==
    /\ pc[r] = "scan_recent"
    /\ IF is_duplicate(claim[r], recent[r])
       THEN /\ response' = [response EXCEPT ![r] =
                   [status |-> "flagged", payout_amount |-> None,
                    confidence_score |-> 0]]
            /\ pc' = [pc EXCEPT ![r] = "done"]
            /\ UNCHANGED <<user_claims, key_expiry, inserted_at>>
       ELSE /\ user_claims' = sadd(user_claims, claim[r])
            /\ inserted_at' = sadd_time(inserted_at, user_claims, claim[r], now)
            /\ key_expiry' = expire(key_expiry, claim[r].user_id, now)
            /\ pc' = [pc EXCEPT ![r] = "evaluate"]
            /\ response' = response
    /\ UNCHANGED <<claim, prior, policy, recent, fraud_score, policy_cache,
                   background_tasks, kafka, now, call, ret, eval_vars>>

\* an exception that submit_claim does not catch: FastAPI answers HTTP 500
ServerError(exception) == [status |-> "http_500", exception |-> exception]

\* check_duplicate_claim when the store of the duplicate index is unreachable
\* at redis_client.smembers: redis.ConnectionError, caught nowhere
SMembersFails(r) ==
    /\ pc[r] = "check_duplicate"
    /\ response' = [response EXCEPT ![r] = ServerError("redis.ConnectionError")]
    /\ pc' = [pc EXCEPT ![r] = "done"]
    /\ UNCHANGED <<claim, prior, policy, recent, fraud_score, policy_cache,
                   user_claims, background_tasks, kafka, call, ret, eval_vars, ttl_vars>>

\* the same at redis_client.sadd (nothing inserted) or at redis_client.expire
\* (the claim is inserted already)
SAddFails(r) ==
    /\ pc[r] = "scan_recent"
    /\ ~is_duplicate(claim[r], recent[r])
    /\ \/ UNCHANGED <<user_claims, inserted_at>>
       \/ /\ user_claims' = sadd(user_claims, claim[r])
          /\ inserted_at' = sadd_time(inserted_at, user_claims, claim[r], now)
    /\ response' = [response EXCEPT ![r] = ServerError("redis.ConnectionError")]
    /\ pc' = [pc EXCEPT ![r] = "done"]
    /\ UNCHANGED <<claim, prior, policy, recent, fraud_score, policy_cache,
                   background_tasks, kafka, now, key_expiry, call, ret, eval_vars>>

\* step 3 when the call to the fraud service raises: caught nowhere
EvaluateFails(r) ==
    /\ pc[r] = "evaluate"
    /\ response' = [response EXCEPT ![r] = ServerError("fraud_detection")]
    /\ pc' = [pc EXCEPT ![r] = "done"]
    /\ UNCHANGED <<claim, prior, policy, recent, fraud_score, policy_cache,
                   user_claims, background_tasks, kafka, call, ret, eval_vars, ttl_vars>>

\* what the providers, the meta classifier and the anomaly detector answer
CalmOutcomes == [n \in ModelNames |-> Returned(10)]
OutcomeVectors ==
    {CalmOutcomes,
     [CalmOutcomes EXCEPT !["identity_graph"] = Returned(95)],
     [CalmOutcomes EXCEPT !["video_analysis"] = Raised, !["text_sentiment"] = Raised]}
RiskScores == {10, 90}
\* the answers of the fraud service drawn by the requests: a low or a high
\* risk score and an anomaly flag on a low one when every provider answers,
\* a low score without the flag when a provider raised or a hard signal is
\* high
FraudAnswers ==
    {a \in OutcomeVectors \X RiskScores \X BOOLEAN :
        \/ a[2] = 10 /\ ~a[3]
        \/ a[1] = CalmOutcomes /\ (a[2] = 10 \/ ~a[3])}

\* variant: the scoring is started before the duplicate check
Evaluate_before_duplicate_check(r) ==
    /\ pc[r] \in {"check_duplicate", "evaluate"}
    /\ \E a \in FraudAnswers :
          fraud_score' = [fraud_score EXCEPT ![r] = evaluate(a[1], a[2], a[3])]
    /\ pc' = [pc EXCEPT ![r] = "dispatch"]
    /\ UNCHANGED <<claim, prior, policy, recent, response, policy_cache, user_claims,
                   background_tasks, kafka, call, ret, eval_vars, ttl_vars>>

\* step 3: fraud_detection.evaluate(claim)
Evaluate(r) ==
    /\ pc[r] = "evaluate"
    /\ \E a \in FraudAnswers :
          fraud_score' = [fraud_score EXCEPT ![r] = evaluate(a[1], a[2], a[3])]
    /\ pc' = [pc EXCEPT ![r] = "dispatch"]
    /\ UNCHANGED <<claim, prior, policy, recent, response, policy_cache, user_claims,
                   background_tasks, kafka, call, ret, eval_vars, ttl_vars>>

\* variant: the claim type is not looked at
instant_approval_any_type(c, fs) ==
    /\ fs.risk_level = "low"
    /\ c.estimated_amount < InstantAmountBelow
    /\ fs.confidence > InstantConfidenceAbove

\* the condition of step 4
instant_approval(c, fs) ==
    /\ fs.risk_level = "low"
    /\ c.estimated_amount < InstantAmountBelow
    /\ fs.confidence > InstantConfidenceAbove
    /\ c.claim_type \in InstantTypes

\* steps 4 and 5: instant approval (payout task, analytics event) or routing
\* to an adjuster
Dispatch(r) ==
    /\ pc[r] = "dispatch"
    /\ IF instant_approval(claim[r], fraud_score[r])
       THEN LET payout_amount == calculate_payout(claim[r], policy[r]) IN
            /\ background_tasks' = background_tasks \cup
                   {[req |-> r, task |-> "process_instant_payout",
                     claim_id |-> claim[r].claim_id, amount |-> payout_amount]}
            /\ kafka' = kafka \cup
                   {[req |-> r, topic |-> "claims.instant_approved",
                     claim_id |-> claim[r].claim_id, amount |-> payout_amount]}
            /\ response' = [response EXCEPT ![r] =
                   [status |-> "instant_approved", payout_amount |-> payout_amount,
                    confidence_score |-> fraud_score[r].confidence]]
       ELSE /\ background_tasks' = background_tasks \cup
                   {[req |-> r, task |-> "route_to_adjuster",
                     claim_id |-> claim[r].claim_id, amount |-> None]}
            /\ kafka' = kafka
            /\ response' = [response EXCEPT ![r] =
                   [status |-> "under_review", payout_amount |-> None,
                    confidence_score |-> fraud_score[r].confidence]]
    /\ pc' = [pc EXCEPT ![r] = "done"]
    /\ UNCHANGED <<claim, prior, policy, recent, fraud_score, policy_cache,
                   user_claims, call, ret, eval_vars, ttl_vars>>

Next ==
    \/ \E r \in Req, c \in ClaimPool : Submit(r, c)
    \/ \E r \in Req : ValidatePolicy(r)
    \/ \E r \in Req : SMembers(r)
    \/ \E r \in Req : CheckDuplicate(r)
    \/ \E r \in Req : Evaluate(r)
    \/ \E r \in Req : Dispatch(r)
    \/ \E r \in Req : SMembersFails(r)
    \/ \E r \in Req : SAddFails(r)
    \/ \E r \in Req : EvaluateFails(r)

Spec == Init /\ [][Next]_vars

(***************************************************************************)
(* The duplicate index as the days pass: the requests up to their          *)
(* registration in the index, and the clock of the store                   *)
(***************************************************************************)
\* ten days pass; the store deletes the keys whose time to live is over
Tick ==
    /\ now < MaxTime
    /\ now' = now + 1
    /\ LET gone == {u \in UserIds : key_expiry[u] # Never /\ key_expiry[u] <= now + 1} IN
        /\ user_claims' = [u \in UserIds |-> IF u \in gone THEN {} ELSE user_claims[u]]
        /\ key_expiry' = [u \in UserIds |-> IF u \in gone THEN Never ELSE key_expiry[u]]
        /\ inserted_at' = [c \in Claims |->
                              IF c.user_id \in gone THEN Never ELSE inserted_at[c]]
    /\ UNCHANGED <<pc, claim, policy, recent, fraud_score, response, prior,
                   policy_cache, background_tasks, kafka, call, ret, eval_vars>>

NextIndex ==
    \/ \E r \in Req, c \in ClaimPool : Submit(r, c)
    \/ \E r \in Req : ValidatePolicy(r)
    \/ \E r \in Req : SMembers(r)
    \/ \E r \in Req : CheckDuplicate(r)
    \/ Tick

SpecIndex == Init /\ [][NextIndex]_vars

(***************************************************************************)
(* Steps 4 and 5 of submit_claim on their own: request 1 has passed the    *)
(* policy check and the duplicate check and its fraud score has arrived    *)
(***************************************************************************)
GateOutcomes ==
    OutcomeVectors \cup {[CalmOutcomes EXCEPT !["video_analysis"] = Raised]}
GateRiskScores == {10, 29, 30, 90}

InitDispatch ==
    /\ InitEnsemble
    /\ call = NoCall
    /\ ret = NoRet
    /\ \E c \in GateClaims, o \in GateOutcomes, s \in GateRiskScores, a \in BOOLEAN :
        /\ pc = [r \in Req |-> IF r = 1 THEN "dispatch" ELSE "idle"]
        /\ claim = [r \in Req |-> IF r = 1 THEN c ELSE NoClaim]
        /\ policy = [r \in Req |-> IF r = 1 THEN PolicyService[c.policy_id] ELSE NoPolicy]
        /\ recent = [r \in Req |-> {}]
        /\ fraud_score = [r \in Req |-> IF r = 1 THEN evaluate(o, s, a) ELSE NoFraud]
        /\ response = [r \in Req |-> NoResponse]
        /\ prior = [r \in Req |-> {}]
        /\ policy_cache = [p \in PolicyIds |->
                              IF p = c.policy_id THEN PolicyService[p] ELSE NoPolicy]
        /\ user_claims = [u \in UserIds |-> IF u = c.user_id THEN {c} ELSE {}]
        /\ background_tasks = {}
        /\ kafka = {}
        /\ now = 0
        /\ key_expiry = [u \in UserIds |->
                            IF u = c.user_id THEN RetentionPeriod ELSE Never]
        /\ inserted_at = [d \in Claims |-> IF d = c THEN 0 ELSE Never]

NextDispatch == \E r \in Req : Dispatch(r)

SpecDispatch == InitDispatch /\ [][NextDispatch]_vars

(***************************************************************************)
(* make_decision applied on its own to score vectors in which each of the  *)
(* four providers it reads is absent or on either side of its threshold    *)
(***************************************************************************)
Absent == 0 - 1
DecisionRiskScores == {0, 14, 15, 16, 50, 85, 86, 100}
BiometricsScores == {Absent, 0, 19, 20}
DeviceScores == {Absent, 0, 29, 30}
IdentityGraphScores == {Absent, 90, 91}
NetworkAnalysisScores == {Absent, 95, 96}

\* the dict with a key for every provider that is not absent
ScoreVector(bb, df, ig, na) ==
    LET all == [behavioral_biometrics |-> bb, device_fingerprint |-> df,
                identity_graph |-> ig, network_analysis |-> na]
    IN [n \in {m \in DOMAIN all : all[m] # Absent} |-> all[n]]

DecisionCalls ==
    {[fn |-> "make_decision", risk_score |-> s, is_anomaly |-> a,
      model_scores |-> ScoreVector(bb, df, ig, na)] :
        s \in DecisionRiskScores, a \in BOOLEAN,
        bb \in BiometricsScores, df \in DeviceScores,
        ig \in IdentityGraphScores, na \in NetworkAnalysisScores}

InitDecision ==
    /\ InitPipeline
    /\ InitEnsemble
    /\ call \in DecisionCalls
    /\ ret = NoRet

MakeDecision ==
    /\ call.fn = "make_decision"
    /\ ~ret.done
    /\ ret' = Returns(make_decision(call.risk_score, call.is_anomaly, call.model_scores))
    /\ UNCHANGED <<pipeline_vars, call, eval_vars>>

NextDecision == MakeDecision

SpecDecision == InitDecision /\ [][NextDecision]_vars

(***************************************************************************)
(* calculate_payout applied on its own                                     *)
(***************************************************************************)
EstimatedAmounts == {1, 35, 50, 60}
CoverageLimits == {20, 50}
CoveredTypes == {"theft", "water_damage"}
Deductibles == {0, 5, 70}

PayoutCalls ==
    {[fn |-> "calculate_payout",
      claim |-> [claim_type |-> t, estimated_amount |-> e],
      policy |-> [status |-> "active", coverage_limits |-> l, deductible |-> d]] :
        t \in ClaimTypes, e \in EstimatedAmounts,
        l \in UNION {[D -> CoverageLimits] : D \in SUBSET CoveredTypes},
        d \in Deductibles}

InitPayout ==
    /\ InitPipeline
    /\ InitEnsemble
    /\ call \in PayoutCalls
    /\ ret = NoRet

CalculatePayout ==
    /\ call.fn = "calculate_payout"
    /\ ~ret.done
    /\ ret' = Returns(calculate_payout(call.claim, call.policy))
    /\ UNCHANGED <<pipeline_vars, call, eval_vars>>

NextPayout == CalculatePayout

SpecPayout == InitPayout /\ [][NextPayout]_vars

(***************************************************************************)
(* FraudDetectionEnsemble.evaluate on its own, one action per iteration of *)
(* the loop over the providers. Every provider returns its own score or    *)
(* raises; at most one provider's predict_proba never returns.             *)
(***************************************************************************)
IndexOf(name) == CHOOSE i \in 1..Len(ModelOrder) : ModelOrder[i] = name
OwnScore(name) == 10 + IndexOf(name)

EvaluateCalls ==
    {[fn |-> "evaluate", outcomes |-> o, hung |-> h,
      final_risk_score |-> 10, is_anomaly |-> FALSE] :
        o \in {[n \in ModelNames |-> IF n \in failed THEN Raised ELSE Returned(OwnScore(n))] :
                  failed \in SUBSET ModelNames},
        h \in {{}} \cup {{n} : n \in ModelNames}}

InitEvaluate ==
    /\ InitPipeline
    /\ InitEnsemble
    /\ call \in EvaluateCalls
    /\ ret = NoRet

\* score = model.predict_proba(features) inside try/except; the call is
\* synchronous and has no timeout, so the loop waits for it
PredictProba ==
    /\ call.fn = "evaluate"
    /\ next_model <= Len(ModelOrder)
    /\ ModelOrder[next_model] \notin call.hung
    /\ model_scores' = record_score(model_scores, ModelOrder[next_model],
                                    call.outcomes[ModelOrder[next_model]])
    /\ next_model' = next_model + 1
    /\ UNCHANGED <<pipeline_vars, call, ret>>

\* after the loop: meta classifier, anomaly detector, make_decision, return
ReturnEvaluation ==
    /\ call.fn = "evaluate"
    /\ next_model = Len(ModelOrder) + 1
    /\ ~ret.done
    /\ ret' = Returns(
          [risk_score      |-> call.final_risk_score,
           risk_level      |-> score_to_level(call.final_risk_score),
           confidence      |-> calculate_confidence(model_scores),
           is_anomaly      |-> call.is_anomaly,
           model_breakdown |-> model_scores,
           decision        |-> make_decision(call.final_risk_score, call.is_anomaly,
                                             model_scores)])
    /\ UNCHANGED <<pipeline_vars, call, eval_vars>>

NextEvaluate == PredictProba \/ ReturnEvaluation

SpecEvaluate == InitEvaluate /\ [][NextEvaluate]_vars

\* the interpreter keeps running the loop as long as it can
SpecEvaluateFair == SpecEvaluate /\ WF_vars(NextEvaluate)

(***************************************************************************)
(* Properties of the pipeline (Spec)                                       *)
(***************************************************************************)
TasksOf(id) == {t \in background_tasks : t.claim_id = id}
TasksOfReq(r) == {t \in background_tasks : t.req = r}
HasOutcome(r) == pc[r] = "done" /\ response[r].status \notin {"http_400", "http_500"}
\* request r came out of check_duplicate_claim with is_duplicate False
PassedAsOriginal(r) ==
    \/ pc[r] \in {"evaluate", "dispatch"}
    \/ pc[r] = "done" /\ response[r].status \in {"instant_approved", "under_review"}
    \/ pc[r] = "done" /\ response[r] = ServerError("fraud_detection")

\* C1: for every claim identifier, over any number of submissions, at most
\* one action (payout task or adjuster-routing task) is dispatched in total.
C1_AtMostOneDispatchPerClaimId ==
    \A id \in ClaimIds : Cardinality(TasksOf(id)) <= 1

\* C2: when an outcome exists for a claim identifier, a later submission of
\* that identifier returns the same status, payout amount and confidence and
\* does not run the fraud scoring.
C2_ResubmissionReturnsStoredOutcome ==
    \A r1 \in Req, r2 \in Req :
        (/\ r1 \in prior[r2]
         /\ HasOutcome(r1)
         /\ claim[r2].claim_id = claim[r1].claim_id)
        => /\ fraud_score[r2] = NoFraud
           /\ pc[r2] = "done" => response[r2] = response[r1]

\* C3: of two concurrent submissions of one claimant that are similar above
\* 0.85, with no earlier matching entry in the index, never both pass
\* check_duplicate_claim as original.
C3_NeverBothOriginal ==
    \A r1 \in Req, r2 \in Req :
        (/\ r1 # r2
         /\ claim[r1] # NoClaim /\ claim[r2] # NoClaim
         /\ claim[r1].user_id = claim[r2].user_id
         /\ calculate_similarity(claim[r1], claim[r2]) > 85)
        => ~(PassedAsOriginal(r1) /\ PassedAsOriginal(r2))

\* C4: a payout is scheduled, and the status is instant_approved, only for a
\* claim whose decision from the decision engine is instant_approve.
C4_PayoutOnlyOnInstantApprove ==
    \A r \in Req :
        (\/ \E t \in TasksOfReq(r) : t.task = "process_instant_payout"
         \/ pc[r] = "done" /\ response[r].status = "instant_approved")
        => fraud_score[r].decision = "instant_approve"

\* C10: a claim whose decision is reject gets the status rejected and is
\* neither paid nor routed to an adjuster.
C10_RejectGetsRejection ==
    \A r \in Req :
        (pc[r] = "done" /\ fraud_score[r].decision = "reject")
        => /\ response[r].status = "rejected"
           /\ TasksOfReq(r) = {}

EventsOfReq(r) == {e \in kafka : e.req = r}

\* C11: every claim evaluation that reaches a decision emits exactly one
\* audit/analytics event, whatever the outcome.
C11_OneEventPerEvaluation ==
    \A r \in Req :
        (pc[r] = "done" /\ fraud_score[r] # NoFraud)
        => Cardinality(EventsOfReq(r)) = 1

InvalidPolicy(r) ==
    claim[r] # NoClaim /\ PolicyService[claim[r].policy_id].status # "active"
\* request r leaves step 1 in this step
LeavesValidation(r) == pc[r] = "validate_policy" /\ pc'[r] # "validate_policy"

\* C14 as stated: a submission whose policy is missing or not active is
\* rejected with a client error and changes no shared state, the policy cache
\* included; no scoring is run.
C14_InvalidPolicyChangesNothing ==
    [][\A r \in Req :
         (LeavesValidation(r) /\ InvalidPolicy(r))
         => /\ response'[r].status = "http_400"
            /\ UNCHANGED <<user_claims, key_expiry, inserted_at, background_tasks,
                           kafka, fraud_score, policy_cache>>]_vars

\* C14 amended: such a submission is rejected with a client error, with no
\* scoring, no change of the duplicate index, no scheduled action and no
\* event, now or later; the only shared state that may change is the policy
\* cache, where validate_policy stores a policy that exists but is not active.
C14_InvalidPolicyOnlyCached ==
    [][\A r \in Req :
         /\ (LeavesValidation(r) /\ InvalidPolicy(r))
            => /\ response'[r].status = "http_400"
               /\ pc'[r] = "done"
               /\ UNCHANGED <<user_claims, key_expiry, inserted_at,
                              background_tasks, kafka, fraud_score>>
               /\ \A p \in PolicyIds :
                     policy_cache'[p] # policy_cache[p]
                     => /\ p = claim[r].policy_id
                        /\ policy_cache'[p] = PolicyService[p]
                        /\ PolicyService[p].status = "inactive"
         /\ (InvalidPolicy(r) /\ pc[r] = "done")
            => /\ UNCHANGED <<pc[r], response[r], fraud_score[r]>>
               /\ fraud_score[r] = NoFraud
               /\ (TasksOfReq(r))' = {}
               /\ (EventsOfReq(r))' = {}]_vars

C14_Witness ==
    \E r \in Req :
        /\ pc[r] = "done"
        /\ claim[r].policy_id = "pol_2"
        /\ response[r].status = "http_400"
        /\ policy_cache["pol_2"].status = "inactive"
        /\ user_claims[claim[r].user_id] = {}

DuplicateStoreFailed(r) ==
    response[r].status = "http_500" /\ response[r].exception = "redis.ConnectionError"

\* C15: when the store of the duplicate index is unreachable during the
\* duplicate check, submit_claim does not fail with an error: the claim gets
\* a forced review outcome, never an instant approval.
C15_StoreOutageForcesReview ==
    \A r \in Req :
        (pc[r] = "done" /\ DuplicateStoreFailed(r))
        => response[r].status = "under_review"

\* C16: a submission that check_duplicate_claim reports as duplicate leaves
\* the duplicate index unchanged and ends the pipeline at once: status
\* flagged, no payout amount, no fraud scoring, no payout task and no
\* adjuster-routing task.
C16_DuplicateEndsPipeline ==
    [][\A r \in Req :
         /\ (/\ pc[r] = "scan_recent" /\ pc'[r] # "scan_recent"
             /\ is_duplicate(claim[r], recent[r]))
            => /\ pc'[r] = "done"
               /\ response'[r].status = "flagged"
               /\ response'[r].payout_amount = None
               /\ UNCHANGED <<user_claims, key_expiry, inserted_at,
                              background_tasks, kafka, fraud_score>>
               /\ fraud_score[r] = NoFraud
         /\ response[r].status = "flagged"
            => /\ UNCHANGED <<pc[r], response[r], fraud_score[r]>>
               /\ (TasksOfReq(r))' = {}]_vars

C16_Witness ==
    \E r \in Req :
        /\ pc[r] = "done"
        /\ response[r].status = "flagged"
        /\ fraud_score[r] = NoFraud
        /\ claim[r].claim_id = "c2"
        /\ user_claims[claim[r].user_id] # {}
        /\ claim[r] \notin user_claims[claim[r].user_id]

\* the order of the steps of submit_claim
StepOrder ==
    {<<"idle", "validate_policy">>,
     <<"validate_policy", "check_duplicate">>, <<"validate_policy", "done">>,
     <<"check_duplicate", "scan_recent">>, <<"check_duplicate", "done">>,
     <<"scan_recent", "evaluate">>, <<"scan_recent", "done">>,
     <<"evaluate", "dispatch">>, <<"evaluate", "done">>,
     <<"dispatch", "done">>}

\* C17: for every submission the steps occur in the order policy
\* validation, duplicate check with registration in the index, scoring and
\* decision, action dispatch; no step runs before its predecessor completed,
\* no claim re-enters an earlier step, and a non-duplicate claim is in the
\* duplicate index before its scoring starts.
C17_StepsInOrder ==
    [][\A r \in Req :
         /\ pc'[r] # pc[r] => <<pc[r], pc'[r]>> \in StepOrder
         /\ policy'[r] # policy[r] => pc[r] = "validate_policy"
         /\ pc'[r] = "check_duplicate" => policy'[r].status = "active"
         /\ recent'[r] # recent[r] => pc[r] = "check_duplicate"
         /\ pc'[r] = "evaluate"
            => /\ claim'[r] \in user_claims'[claim'[r].user_id]
               /\ ~is_duplicate(claim'[r], recent'[r])
               /\ fraud_score'[r] = NoFraud
         /\ fraud_score'[r] # fraud_score[r] => (pc[r] = "evaluate" /\ pc'[r] = "dispatch")
         /\ pc'[r] = "dispatch" => fraud_score'[r].decision # "none"
         /\ (TasksOfReq(r))' # TasksOfReq(r)
            => (pc[r] = "dispatch" /\ pc'[r] = "done")
         /\ (EventsOfReq(r))' # EventsOfReq(r)
            => (pc[r] = "dispatch" /\ pc'[r] = "done")]_vars

C17_Witness ==
    \E r \in Req :
        /\ pc[r] = "done"
        /\ policy[r].status = "active"
        /\ claim[r] \in user_claims[claim[r].user_id]
        /\ fraud_score[r].decision = "review"
        /\ response[r].status = "under_review"
        /\ \E t \in TasksOfReq(r) : t.task = "route_to_adjuster"

\* C20: a claim that check_duplicate_claim registered in the index is never
\* left with no action while its resubmissions are answered as flagged
\* duplicates, also when the scoring call failed after the registration.
C20_RegisteredClaimGetsAction ==
    \A r1 \in Req, r2 \in Req :
        (/\ r1 \in prior[r2]
         /\ claim[r2] = claim[r1]
         /\ PassedAsOriginal(r1)
         /\ claim[r1] \in user_claims[claim[r1].user_id]
         /\ pc[r2] = "done" /\ response[r2].status = "flagged"
         /\ \A q \in Req : claim[q].claim_id = claim[r1].claim_id => pc[q] = "done")
        => TasksOf(claim[r1].claim_id) # {}

C18_EntryExpiresAfterRetention ==
    \A u \in UserIds : \A c \in user_claims[u] : now - inserted_at[c] <= 3

(***************************************************************************)
(* Properties of make_decision (SpecDecision)                              *)
(***************************************************************************)
Decided == call.fn = "make_decision" /\ ret.done
Has(n) == n \in DOMAIN call.model_scores
ScoreOf(n) == call.model_scores[n]
HardSignal ==
    \/ Has("identity_graph") /\ ScoreOf("identity_graph") > 90
    \/ Has("network_analysis") /\ ScoreOf("network_analysis") > 95
\* the approve criteria with both secondary scores in the vector
ApprovePresent ==
    /\ call.risk_score < 15
    /\ ~call.is_anomaly
    /\ Has("behavioral_biometrics") /\ ScoreOf("behavioral_biometrics") < 20
    /\ Has("device_fingerprint") /\ ScoreOf("device_fingerprint") < 30
\* the approve criteria where an absent secondary score is not looked at
ApproveIfPresent ==
    /\ call.risk_score < 15
    /\ ~call.is_anomaly
    /\ Has("behavioral_biometrics") => ScoreOf("behavioral_biometrics") < 20
    /\ Has("device_fingerprint") => ScoreOf("device_fingerprint") < 30

\* C5: a score vector that meets the approve criteria and a reject criterion
\* (identity_graph > 0.9 or network_analysis > 0.95) resolves to review.
C5_ConflictResolvesToReview ==
    (Decided /\ ApprovePresent /\ HardSignal) => ret.value = "review"

\* C6 as stated: instant_approve iff risk score < 0.15, no anomaly, and each
\* of the biometrics and device scores that is present is below its
\* threshold; an absent one does not block the approval.
C6_AbsentScoreDoesNotBlock ==
    Decided => (ret.value = "instant_approve" <=> ApproveIfPresent)

\* C6 amended: instant_approve iff risk score < 0.15, no anomaly, and the
\* biometrics and device scores are both present and below 0.2 and 0.3; a
\* vector in which one of the two is absent is never instant-approved.
C6_ApproveIffPresentAndBelow ==
    Decided => (ret.value = "instant_approve" <=> ApprovePresent)

C6_Witness ==
    /\ Decided
    /\ call.risk_score < 15 /\ ~call.is_anomaly
    /\ ~Has("behavioral_biometrics")
    /\ Has("device_fingerprint") /\ ScoreOf("device_fingerprint") < 30
    /\ ret.value = "review"

\* C7: for a vector that does not meet the approve criteria, reject iff risk
\* score > 0.85 or identity_graph > 0.9 or network_analysis > 0.95, review
\* otherwise; an absent hard signal never triggers reject.
C7_RejectIffHardSignalElseReview ==
    (Decided /\ ~ApprovePresent)
    => /\ ret.value = "reject" <=> (call.risk_score > 85 \/ HardSignal)
       /\ ret.value \in {"reject", "review"}

C7_Witness ==
    /\ Decided
    /\ call.risk_score = 50
    /\ Has("identity_graph") /\ ScoreOf("identity_graph") = 91
    /\ ~Has("network_analysis")
    /\ ret.value = "reject"

\* C8: the approve thresholds are strict: with no anomaly and low secondary
\* scores a risk score of exactly 0.15 is not instant-approved and every risk
\* score below it is; biometrics exactly 0.2 or device exactly 0.3 is not
\* instant-approved.
C8_StrictApproveThresholds ==
    (/\ Decided
     /\ ~call.is_anomaly
     /\ Has("behavioral_biometrics") /\ Has("device_fingerprint"))
    => /\ (ScoreOf("behavioral_biometrics") < 20 /\ ScoreOf("device_fingerprint") < 30)
          => /\ call.risk_score = 15 => ret.value # "instant_approve"
             /\ call.risk_score < 15 => ret.value = "instant_approve"
       /\ ScoreOf("behavioral_biometrics") = 20 => ret.value # "instant_approve"
       /\ ScoreOf("device_fingerprint") = 30 => ret.value # "instant_approve"

C8_Witness ==
    /\ Decided
    /\ call.risk_score = 15 /\ ~call.is_anomaly
    /\ Has("behavioral_biometrics") /\ ScoreOf("behavioral_biometrics") = 19
    /\ Has("device_fingerprint") /\ ScoreOf("device_fingerprint") = 29
    /\ ret.value = "review"

(***************************************************************************)
(* Properties of FraudDetectionEnsemble.evaluate (SpecEvaluate)            *)
(***************************************************************************)
Evaluating == call.fn = "evaluate"
Called == {ModelOrder[i] : i \in 1..(next_model - 1)}
ExpectedScore(n) ==
    IF call.outcomes[n].ok THEN call.outcomes[n].score ELSE 50

\* C12: whatever subset of the providers raises, evaluate does not abort:
\* every provider is called in turn and the score vector has exactly one
\* entry per provider, keyed by its name: 0.5 for a provider that raised, its
\* own score otherwise.
C12_FailedProvidersNeutral ==
    Evaluating =>
        /\ DOMAIN model_scores = Called
        /\ \A n \in DOMAIN model_scores : model_scores[n] = ExpectedScore(n)
        /\ (call.hung = {} /\ ~ret.done) => ENABLED NextEvaluate
        /\ ret.done =>
              /\ DOMAIN ret.value.model_breakdown = ModelNames
              /\ \A n \in ModelNames : ret.value.model_breakdown[n] = ExpectedScore(n)

C12_Witness ==
    /\ Evaluating
    /\ ret.done
    /\ ~call.outcomes["behavioral_biometrics"].ok
    /\ ~call.outcomes["network_analysis"].ok
    /\ ret.value.model_breakdown["behavioral_biometrics"] = 50
    /\ ret.value.model_breakdown["device_fingerprint"] = OwnScore("device_fingerprint")
    /\ ret.value.model_breakdown["text_sentiment"] = OwnScore("text_sentiment")

\* C13: evaluate always terminates with a decision, also when a provider
\* call never returns.
C13_EvaluateTerminates ==
    Evaluating ~> ret.done

(***************************************************************************)
(* Properties of calculate_payout (SpecPayout)                             *)
(***************************************************************************)
Paid == call.fn = "calculate_payout" /\ ret.done
LimitOf ==
    IF call.claim.claim_type \in DOMAIN call.policy.coverage_limits
    THEN call.policy.coverage_limits[call.claim.claim_type]
    ELSE 0

\* C9: the payout is max(min(estimated amount, coverage limit) - deductible,
\* 0) with a limit of 0 for a claim type the policy does not cover; it is
\* never negative and never above the estimated amount (3500/5000/500 gives
\* 3000, 100 with deductible 500 gives 0).
C9_PayoutArithmetic ==
    Paid =>
        LET est == call.claim.estimated_amount
            ded == call.policy.deductible
            capped == IF est <= LimitOf THEN est ELSE LimitOf
        IN /\ ret.value = (IF capped - ded >= 0 THEN capped - ded ELSE 0)
           /\ ret.value >= 0
           /\ ret.value <= est
           /\ (est = 35 /\ LimitOf = 50 /\ ded = 5) => ret.value = 30
           /\ (est = 1 /\ ded = 5) => ret.value = 0

C9_Witness ==
    /\ Paid
    /\ call.claim.estimated_amount = 1
    /\ call.claim.claim_type \in DOMAIN call.policy.coverage_limits
    /\ call.policy.deductible = 5
    /\ ret.value = 0

====
